---- MODULE Spec2Model ----
(***************************************************************************)
(* A model of the bulk e-mail dispatcher: the recipient store of db.py,    *)
(* the sender of sender.py (the sequential start_campaign loop, the        *)
(* per-recipient retry task _send_single and the shared rate limiter) and  *)
(* the status consumer of main.py.                                         *)
(***************************************************************************)
EXTENDS Integers, Sequences, FiniteSets, TLC

\* ------------------------------------------------------------------ bounds

\* Recipients of the campaign being dispatched.
NumRecipients == 2
\* Dispatch runs over the same campaign (a second run meets non-pending rows).
MaxRuns == 2
\* Earlier runs of start_campaign over the campaign, when it was dispatched before.
MaxPriorRuns == 2
\* Status writes that the store refuses (sqlite raising) in one behaviour.
MaxFaults == 1
\* Worker threads of the pool.
Concurrency == 2
\* Clock ticks in one second: the resolution of the rate limiter's clock.
TicksPerSecond == 2
\* Ticks the rate limiter's clock runs for.
MaxTicks == 5
\* Rate limiter calls that are made.
MaxGrants == 3
\* update_recipient_status calls made on the store alone.
MaxCalls == 3

\* ------------------------------------------------------- program constants

\* start_campaign is always started at index 0 (main.py, the started lambda).
StartIndex == 0

\* The campaigns of the store; CampaignId is the one being dispatched.
Campaigns == {1, 2}
CampaignId == 1
\* Python's None, as a text and as an attempts argument.
None == <<>>
NoAttempts == -1
\* No tuple returned yet.
NoResult == [text |-> <<>>, attempts |-> NoAttempts]

\* ------------------------------------------------------------- addresses
\* An address is a sequence of characters.
GoodAddr == <<"a", "@", "g", ".", "c">>
DownAddr == <<"a", "@", "d", ".", "c">>
BadAddr == <<"b", "a", "d">>
NoTldAddr == <<"a", "@", "g">>
PaddedAddr == <<" ", "a", "@", "g", ".", "c", " ">>

Addresses == {GoodAddr, BadAddr, PaddedAddr}
TaskAddresses == {GoodAddr, BadAddr}

NoAt(s, lo, hi) == \A k \in lo..hi : s[k] # "@"

\* re.match(r"[^@]+@[^@]+\.[^@]+", s): a match anchored at the start only.
RegexMatch(s) ==
    \E i \in 2..Len(s) : \E j \in (i + 2)..Len(s) :
        /\ s[i] = "@"
        /\ NoAt(s, 1, i - 1)
        /\ s[j] = "."
        /\ NoAt(s, i + 1, j - 1)
        /\ j + 1 <= Len(s)
        /\ s[j + 1] # "@"

RECURSIVE LStrip(_)
LStrip(s) == IF s # <<>> /\ Head(s) = " " THEN LStrip(Tail(s)) ELSE s

RECURSIVE RStrip(_)
RStrip(s) ==
    IF s # <<>> /\ s[Len(s)] = " " THEN RStrip(SubSeq(s, 1, Len(s) - 1)) ELSE s

\* str.strip()
Strip(s) == RStrip(LStrip(s))

\* email_validator.validate_email, its syntax rules: one "@", a non-empty local
\* part, a dotted domain with non-empty labels, no white space.
ValidateEmail(s) ==
    /\ Cardinality({k \in 1..Len(s) : s[k] = "@"}) = 1
    /\ \A k \in 1..Len(s) : s[k] # " "
    /\ LET at == CHOOSE k \in 1..Len(s) : s[k] = "@"
       IN /\ at > 1
          /\ at < Len(s)
          /\ \E d \in (at + 2)..(Len(s) - 1) : s[d] = "."
          /\ s[at + 1] # "."
          /\ s[Len(s)] # "."
          /\ \A d \in (at + 1)..(Len(s) - 1) : ~(s[d] = "." /\ s[d + 1] = ".")

\* ------------------------------------------------------------------ state

VARIABLES
    recipients,      \* db: the recipients table, rid -> row
    campaign_stats,  \* db: campaign id -> the campaign's campaign_stats row
    faults,          \* status writes refused so far
    runs,            \* dispatch runs started so far
    cpc,             \* start_campaign: where the run is
    idx,             \* start_campaign: index of the recipient being processed
    counts,          \* start_campaign: sent_count, failed_count, invalid_count
    progress,        \* progress signals emitted by the current run
    finished,        \* finished signals emitted by the current run
    sendmails,       \* rid -> sendmail calls of the current run
    snapshot,        \* the rows fetched when the run started
    stop_event,      \* SenderWorker._stop_event
    tpc,             \* rid -> where the recipient's _send_single task is
    attempt,         \* rid -> the task's loop variable
    last_error,      \* rid -> the task's last_error
    exc,             \* rid -> the exception the task is handling or raised
    result,          \* rid -> the tuple the task returned
    sends,           \* rid -> send operations begun by the task
    accepted,        \* rid -> send operations the transport accepted
    acquired,        \* rid -> rate limiter acquisitions of the task
    seen_stop,       \* rid -> the task found the stop flag set at a checkpoint
    started_at_stop, \* tasks begun when stop() was called
    backoff,         \* rid -> the task's latest back-off sleep: begun at, over at
    consumed,        \* rid -> the task's status event was handled
    ui,              \* MainWindow's real-time counters
    threads,         \* the QThreads created so far: state, status signals emitted
    sender_thread,   \* MainWindow.sender_thread: a thread of them, 0 for None
    pending,         \* start_sender_thread calls inside processEvents
    events,          \* finished signals queued for the window
    refusals,        \* start requests refused so far
    clock,           \* time.time(), in ticks
    last_sent,       \* SenderWorker._last_sent
    lock,            \* SenderWorker._lock: the worker holding it, 0 when free
    lpc,             \* worker -> where its _rate_limit call is
    wake,            \* worker -> the time its sleep is over
    seen_sent,       \* worker -> the _last_sent its elapsed was computed from
    grants,          \* the acquisitions granted: when, and to which worker
    starts,          \* the times the send operations were started
    calls,           \* update_recipient_status calls made on the store alone
    last_call,       \* the latest of them: recipient, status, attempts, same as the one before
    db_lock,         \* db._lock: the thread holding it, 0 when free
    dpc,             \* thread -> where its update_recipient_status call is
    dargs            \* thread -> the arguments of its call

dbVars == <<recipients, campaign_stats, faults>>
campVars == <<runs, cpc, idx, counts, progress, finished, sendmails>>
taskVars == <<snapshot, stop_event, tpc, attempt, last_error, exc, result, sends,
              accepted, acquired, seen_stop, started_at_stop, backoff>>
winVars == <<threads, sender_thread, pending, events, refusals>>
uiVars == <<consumed, ui, winVars>>
limVars == <<clock, last_sent, lock, lpc, wake, seen_sent, grants, starts>>
apiVars == <<calls, last_call, db_lock, dpc, dargs>>
vars == <<recipients, campaign_stats, faults, runs, cpc, idx, counts, progress,
          finished, sendmails, snapshot, stop_event, tpc, attempt, last_error, exc,
          result, sends, accepted, acquired, seen_stop, started_at_stop, backoff,
          consumed, ui, threads, sender_thread, pending, events, refusals, clock, last_sent, lock, lpc, wake, seen_sent, grants, starts,
          calls, last_call, db_lock, dpc, dargs>>

\* The ids of the rows of the recipients table.
Rids == DOMAIN recipients

\* ------------------------------------------------------------------ db.py

\* COUNT(*) ... WHERE campaign_id = ? AND status LIKE '<kw>%'. Every status the
\* program stores is a bare keyword, and no keyword is a prefix of another.
CountLike(rows, cid, kw) ==
    Cardinality({r \in DOMAIN rows :
                    rows[r].campaign_id = cid /\ rows[r].status = kw})

CountAll(rows, cid) ==
    Cardinality({r \in DOMAIN rows : rows[r].campaign_id = cid})

\* The row INSERTed by add_recipients: the schema's defaults.
NewRowOf(cid, addr) ==
    [campaign_id |-> cid, email |-> addr, status |-> "pending",
     last_error |-> None, attempts |-> 0]

NewRow(addr) == NewRowOf(CampaignId, addr)

\* The campaign_stats rows after create_campaign and add_recipients.
NewStats(rows) ==
    [c \in Campaigns |->
        [sent_count |-> 0, failed_count |-> 0, responded_count |-> 0,
         total_recipients |-> CountAll(rows, c)]]

\* An omitted attempts value is stored as the schema's default.
UpdateRowResetting(row, status, error, attempts) ==
    [row EXCEPT !.status = status, !.last_error = error,
                !.attempts = IF attempts # NoAttempts THEN attempts ELSE 0]

\* The UPDATE recipients statement of update_recipient_status.
UpdateRow(row, status, error, attempts) ==
    IF attempts # NoAttempts
    THEN [row EXCEPT !.status = status, !.last_error = error,
                     !.attempts = attempts]
    ELSE [row EXCEPT !.status = status, !.last_error = error]

\* The counters are added to instead of being set to the counts.
RecomputeStatsAdded(stats, rows, cid) ==
    [stats EXCEPT ![cid].sent_count = @ + CountLike(rows, cid, "sent"),
                  ![cid].failed_count = @ + CountLike(rows, cid, "failed"),
                  ![cid].responded_count = @ + CountLike(rows, cid, "responded")]

\* The UPDATE campaign_stats statement of update_recipient_status.
RecomputeStats(stats, rows, cid) ==
    [stats EXCEPT ![cid].sent_count = CountLike(rows, cid, "sent"),
                  ![cid].failed_count = CountLike(rows, cid, "failed"),
                  ![cid].responded_count = CountLike(rows, cid, "responded")]

\* update_recipient_status with the write going through: the table after it.
RowsAfterUpdate(rows, rid, status, error, attempts) ==
    IF rid \in DOMAIN rows
    THEN [rows EXCEPT ![rid] = UpdateRow(rows[rid], status, error, attempts)]
    ELSE rows

\* The counters are recomputed before the row is updated.
StatsBeforeUpdate(stats, rows, rid, status, error, attempts) ==
    IF rid \in DOMAIN rows
    THEN RecomputeStats(stats, rows, rows[rid].campaign_id)
    ELSE stats

\* Lines 106-128: the stats rows after the call, those of the campaign read
\* before the update recomputed from the updated table.
StatsAfterUpdate(stats, rows, rid, status, error, attempts) ==
    IF rid \in DOMAIN rows
    THEN RecomputeStats(stats,
                        RowsAfterUpdate(rows, rid, status, error, attempts),
                        rows[rid].campaign_id)
    ELSE stats

\* A status write may be refused by the store (sqlite raises before commit):
\* nothing is stored and the caller sees the exception.
WriteOutcomes == IF faults < MaxFaults THEN {TRUE, FALSE} ELSE {TRUE}

\* The fault count after a write that was stored or refused.
Counted(stored) == IF stored THEN faults ELSE faults + 1

\* The threads that call into the store: the pool's.
Threads == 1..Concurrency
\* The thread is in no call.
NoArgs == [rid |-> 0, status |-> "", error |-> None, attempts |-> NoAttempts]

\* update_recipient_status called on the store alone.
ApiInit ==
    /\ calls = 0
    /\ last_call = [rid |-> 0, status |-> "", attempts |-> NoAttempts, again |-> FALSE]
    /\ db_lock = 0
    /\ dpc = [t \in Threads |-> "idle"]
    /\ dargs = [t \in Threads |-> NoArgs]

Statuses == {"pending", "sent", "failed", "invalid", "responded"}
TerminalStatuses == Statuses \ {"pending"}

update_recipient_status(recipient_id, status, error, attempts) ==
    /\ calls < MaxCalls
    /\ calls' = calls + 1
    /\ last_call' = [rid |-> recipient_id, status |-> status, attempts |-> attempts,
                     again |-> /\ last_call.rid = recipient_id
                               /\ last_call.status = status]
    /\ recipients' = RowsAfterUpdate(recipients, recipient_id, status, error, attempts)
    /\ campaign_stats' =
          StatsAfterUpdate(campaign_stats, recipients, recipient_id, status, error, attempts)
    /\ UNCHANGED <<faults, campVars, taskVars, uiVars, limVars, db_lock, dpc, dargs>>

\* Line 100: a thread calls update_recipient_status and reaches "with _lock".
DbCall(t, recipient_id, status, error, attempts) ==
    /\ dpc[t] = "idle"
    /\ calls < MaxCalls
    /\ calls' = calls + 1
    /\ dpc' = [dpc EXCEPT ![t] = "lock"]
    /\ dargs' = [dargs EXCEPT ![t] = [rid |-> recipient_id, status |-> status,
                                      error |-> error, attempts |-> attempts]]
    /\ UNCHANGED <<last_call, db_lock, dbVars, campVars, taskVars, uiVars, limVars>>

\* The lock is taken whoever holds it.
StoreLockIgnored(holder) == TRUE

\* Line 8, threading.Lock: it can be taken when nobody holds it.
StoreLockFree(holder) == holder = 0

\* Line 101: with _lock, entered.
DbEnter(t) ==
    /\ dpc[t] = "lock"
    /\ StoreLockFree(db_lock)
    /\ db_lock' = t
    /\ dpc' = [dpc EXCEPT ![t] = "select"]
    /\ UNCHANGED <<calls, last_call, dargs, dbVars, campVars, taskVars, uiVars, limVars>>

\* Lines 102-111: the recipient's campaign is read; with no such recipient the
\* call returns, and leaving the with block releases the lock.
DbSelect(t) ==
    /\ dpc[t] = "select"
    /\ IF dargs[t].rid \in Rids
       THEN /\ dpc' = [dpc EXCEPT ![t] = "update"]
            /\ UNCHANGED <<db_lock, dargs>>
       ELSE /\ dpc' = [dpc EXCEPT ![t] = "idle"]
            /\ dargs' = [dargs EXCEPT ![t] = NoArgs]
            /\ db_lock' = 0
    /\ UNCHANGED <<calls, last_call, dbVars, campVars, taskVars, uiVars, limVars>>

\* Lines 113-131: the row is updated, the stats recomputed, both committed; or
\* sqlite raises and nothing is stored. Either way the with block is left and
\* the lock released.
DbUpdate(t) ==
    /\ dpc[t] = "update"
    /\ \E stored \in WriteOutcomes :
          /\ faults' = Counted(stored)
          /\ IF stored
             THEN /\ recipients' = RowsAfterUpdate(recipients, dargs[t].rid, dargs[t].status,
                                                  dargs[t].error, dargs[t].attempts)
                  /\ campaign_stats' =
                        StatsAfterUpdate(campaign_stats, recipients, dargs[t].rid,
                                         dargs[t].status, dargs[t].error, dargs[t].attempts)
             ELSE UNCHANGED <<recipients, campaign_stats>>
    /\ dpc' = [dpc EXCEPT ![t] = "idle"]
    /\ dargs' = [dargs EXCEPT ![t] = NoArgs]
    /\ db_lock' = 0
    /\ UNCHANGED <<calls, last_call, campVars, taskVars, uiVars, limVars>>

\* --------------------------------------- sender.py, SenderWorker._rate_limit

\* rate_per_sec: SenderWorker's default.
RatePerSec == 1
\* interval = 1.0 / max(1e-6, self.rate_per_sec), in ticks.
Interval == TicksPerSecond \div RatePerSec
\* time.time() when the worker is constructed: far from 0.0, the initial
\* _last_sent, so that the first call finds the interval elapsed.
Epoch == Interval

Workers == 1..Concurrency

RateInit ==
    /\ clock = Epoch
    /\ last_sent = 0
    /\ lock = 0
    /\ lpc = [w \in Workers |-> "idle"]
    /\ wake = [w \in Workers |-> 0]
    /\ seen_sent = [w \in Workers |-> 0]
    /\ grants = <<>>
    /\ starts = <<>>

\* A worker reaches self._rate_limit() in its attempt loop.
RateLimitCall(w) ==
    /\ lpc[w] = "idle"
    /\ Len(grants) + Cardinality({v \in Workers : lpc[v] # "idle"}) < MaxGrants
    /\ lpc' = [lpc EXCEPT ![w] = "lock"]
    /\ UNCHANGED <<clock, last_sent, lock, wake, seen_sent, grants, starts,
                   dbVars, campVars, taskVars, uiVars, apiVars>>

\* The lock is taken whoever holds it.
LockIgnored(holder) == TRUE

\* threading.Lock: it can be taken when nobody holds it.
LockFree(holder) == holder = 0

\* with self._lock: the worker waits until the lock is free and takes it.
LockAcquire(w) ==
    /\ lpc[w] = "lock"
    /\ LockFree(lock)
    /\ lock' = w
    /\ lpc' = [lpc EXCEPT ![w] = "now"]
    /\ UNCHANGED <<clock, last_sent, wake, seen_sent, grants, starts,
                   dbVars, campVars, taskVars, uiVars, apiVars>>

\* time.sleep(interval - elapsed) is not called at all.
SleepSkipped(elapsed) == 0

\* The argument of time.sleep.
SleepFor(elapsed) == Interval - elapsed

\* Lines 40-43: the clock is read and compared with _last_sent.
ReadClock(w) ==
    /\ lpc[w] = "now"
    /\ seen_sent' = [seen_sent EXCEPT ![w] = last_sent]
    /\ LET now == clock
           elapsed == now - last_sent
       IN IF elapsed < Interval
          THEN /\ wake' = [wake EXCEPT ![w] = now + SleepFor(elapsed)]
               /\ lpc' = [lpc EXCEPT ![w] = "sleep"]
          ELSE /\ lpc' = [lpc EXCEPT ![w] = "stamp"]
               /\ UNCHANGED wake
    /\ UNCHANGED <<clock, last_sent, lock, grants, starts,
                   dbVars, campVars, taskVars, uiVars, apiVars>>

\* time.sleep returns: not before the time asked for has passed.
Wake(w) ==
    /\ lpc[w] = "sleep"
    /\ clock >= wake[w]
    /\ lpc' = [lpc EXCEPT ![w] = "stamp"]
    /\ UNCHANGED <<clock, last_sent, lock, wake, seen_sent, grants, starts,
                   dbVars, campVars, taskVars, uiVars, apiVars>>

\* The with block is left with the lock still held.
StillHeld(holder) == holder

\* The end of the with block: the holder of the lock after it, nobody.
Released(holder) == 0

\* Line 44 and the end of the with block: the grant is stamped, the lock freed.
Stamp(w) ==
    /\ lpc[w] = "stamp"
    /\ last_sent' = clock
    /\ grants' = Append(grants, [at |-> clock, by |-> w, since |-> seen_sent[w]])
    /\ lock' = Released(w)
    /\ lpc' = [lpc EXCEPT ![w] = "send"]
    /\ UNCHANGED <<clock, wake, seen_sent, starts,
                   dbVars, campVars, taskVars, uiVars, apiVars>>

\* Lines 64-76 of _send_single: back from _rate_limit, the worker builds the
\* message and starts the send operation.
SendStart(w) ==
    /\ lpc[w] = "send"
    /\ starts' = Append(starts, clock)
    /\ lpc' = [lpc EXCEPT ![w] = "idle"]
    /\ UNCHANGED <<clock, last_sent, lock, wake, seen_sent, grants,
                   dbVars, campVars, taskVars, uiVars, apiVars>>

\* Time passes.
Tick ==
    /\ clock < Epoch + MaxTicks
    /\ clock' = clock + 1
    /\ UNCHANGED <<last_sent, lock, lpc, wake, seen_sent, grants, starts,
                   dbVars, campVars, taskVars, uiVars, apiVars>>

\* ------------------------------------- sender.py, SenderWorker.start_campaign

\* self.db.increment_attempts(r.id): the store's attempts counter plus one.
IncrementAttempts(rows, rid) ==
    [rows EXCEPT ![rid].attempts = rows[rid].attempts + 1]

\* str(ex) of the exception of sendmail call number n to a recipient.
TransportError(n) == <<"smtp error", n>>
\* str(ex) of the exception of a refused status write.
StoreError == <<"db error">>

ZeroCounts == [sent |-> 0, failed |-> 0, invalid |-> 0]

CampaignInit ==
    /\ runs = 0
    /\ cpc = "idle"
    /\ idx = 0
    /\ counts = ZeroCounts
    /\ progress = <<>>
    /\ finished = <<>>
    /\ sendmails = [r \in Rids |-> 0]

\* Lines 89-103: the snapshot, the counters, the SMTP connection set-up.
StartCampaign ==
    /\ cpc \in {"idle", "done"}
    /\ runs < MaxRuns
    /\ runs' = runs + 1
    /\ counts' = ZeroCounts
    /\ progress' = <<>>
    /\ sendmails' = [r \in Rids |-> 0]
    /\ idx' = StartIndex + 1
    /\ \E connected \in BOOLEAN :
          IF connected
          THEN /\ cpc' = "loop"
               /\ finished' = <<>>
          ELSE /\ cpc' = "done"
               /\ finished' = <<ZeroCounts>>
    /\ UNCHANGED <<dbVars, taskVars, uiVars, limVars, apiVars>>

\* Lines 106-117: the head of one iteration, up to the format check.
CampaignValidate ==
    /\ cpc = "loop"
    /\ idx <= Len(recipients)
    /\ LET rid == idx
           email_addr == Strip(recipients[rid].email)
           counted == IncrementAttempts(recipients, rid)
       IN IF RegexMatch(email_addr)
          THEN /\ recipients' = counted
               /\ cpc' = "send"
               /\ UNCHANGED <<campaign_stats, faults, idx, counts, progress>>
          ELSE \E stored \in WriteOutcomes :
                  /\ faults' = Counted(stored)
                  /\ IF stored
                     THEN /\ recipients' = RowsAfterUpdate(counted, rid, "invalid",
                                                          <<"Invalid email format">>, NoAttempts)
                          /\ campaign_stats' =
                                StatsAfterUpdate(campaign_stats, counted, rid, "invalid",
                                                 <<"Invalid email format">>, NoAttempts)
                          /\ counts' = [counts EXCEPT !.invalid = @ + 1]
                          /\ progress' = Append(progress, counts')
                          /\ idx' = idx + 1
                          /\ UNCHANGED cpc
                     ELSE \* the exception leaves start_campaign: no finished signal
                          /\ recipients' = counted
                          /\ cpc' = "crashed"
                          /\ UNCHANGED <<campaign_stats, idx, counts, progress>>
    /\ UNCHANGED <<runs, finished, sendmails, taskVars, uiVars, limVars, apiVars>>

\* Lines 126-131: the except clause of one iteration, entered with `refused`
\* status writes refused in the try block.
CampaignExcept(rid, ex, refused) ==
    \E stored \in (IF faults + refused < MaxFaults THEN {TRUE, FALSE} ELSE {TRUE}) :
        /\ faults' = (IF stored THEN faults ELSE faults + 1) + refused
        /\ IF stored
           THEN /\ recipients' = RowsAfterUpdate(recipients, rid, "failed", ex, NoAttempts)
                /\ campaign_stats' =
                      StatsAfterUpdate(campaign_stats, recipients, rid, "failed", ex, NoAttempts)
                /\ counts' = [counts EXCEPT !.failed = @ + 1]
                /\ progress' = Append(progress, counts')
                /\ idx' = idx + 1
                /\ cpc' = "loop"
           ELSE \* the exception leaves start_campaign: no finished signal
                /\ cpc' = "crashed"
                /\ UNCHANGED <<recipients, campaign_stats, idx, counts, progress>>

\* Lines 119-131: sendmail, the status write, the counters, the progress signal.
CampaignSend ==
    /\ cpc = "send"
    /\ LET rid == idx
           n == sendmails[rid] + 1
       IN /\ sendmails' = [sendmails EXCEPT ![rid] = n]
          /\ \/ \* sendmail returns and the 'sent' write goes through
                /\ recipients' = RowsAfterUpdate(recipients, rid, "sent", None, NoAttempts)
                /\ campaign_stats' =
                      StatsAfterUpdate(campaign_stats, recipients, rid, "sent", None, NoAttempts)
                /\ counts' = [counts EXCEPT !.sent = @ + 1]
                /\ progress' = Append(progress, counts')
                /\ idx' = idx + 1
                /\ cpc' = "loop"
                /\ UNCHANGED faults
             \/ \* sendmail raises
                CampaignExcept(rid, TransportError(n), 0)
             \/ \* sendmail returns and the 'sent' write raises
                /\ faults < MaxFaults
                /\ CampaignExcept(rid, StoreError, 1)
    /\ UNCHANGED <<runs, finished, taskVars, uiVars, limVars, apiVars>>

\* Lines 133-140: the loop is over, the final result is emitted.
CampaignFinish ==
    /\ cpc = "loop"
    /\ idx > Len(recipients)
    /\ finished' = Append(finished, counts)
    /\ cpc' = "done"
    /\ UNCHANGED <<dbVars, runs, idx, counts, progress, sendmails, taskVars, uiVars,
                   limVars, apiVars>>

\* ------------------------------------- sender.py, SenderWorker._send_single

\* retry_attempts, the retry ceiling: SenderWorker's default, which main.py keeps.
RetryAttempts == 2
\* A status text is its keyword followed by the detail appended after it:
\* "sent", "stopped", f"invalid: {e}", f"failed: {last_error}".
StatusText(keyword, detail) ==
    IF detail = <<>> THEN <<keyword>> ELSE <<keyword, detail>>

\* str.startswith on a status text.
StartsWith(text, keyword) == text[1] = keyword

\* str(e) of EmailNotValidError.
InvalidReason == <<"not a valid address">>

\* retry_backoff: SenderWorker's default, in seconds.
RetryBackoff == 2

\* Line 83: self.retry_backoff * attempt, in ticks.
BackoffDelay(n) == RetryBackoff * TicksPerSecond * n

\* No time.sleep call made yet.
NoSleep == [from |-> 0, until |-> 0]

\* Line 83: the time.sleep call of attempt n, made now.
SleepOf(n) == [from |-> clock, until |-> clock + BackoffDelay(n)]

Running == {r \in Rids : tpc[r] \in {"check", "attempt", "except"}}
Settled(r) == tpc[r] \in {"returned", "raised"}

TaskInit ==
    /\ snapshot = recipients
    /\ stop_event = FALSE
    /\ tpc = [r \in Rids |-> "queued"]
    /\ attempt = [r \in Rids |-> 0]
    /\ last_error = [r \in Rids |-> None]
    /\ exc = [r \in Rids |-> None]
    /\ result = [r \in Rids |-> NoResult]
    /\ sends = [r \in Rids |-> 0]
    /\ accepted = [r \in Rids |-> 0]
    /\ acquired = [r \in Rids |-> 0]
    /\ seen_stop = [r \in Rids |-> FALSE]
    /\ started_at_stop = 0
    /\ backoff = [r \in Rids |-> NoSleep]

\* stop(): sets the event.
Stop ==
    /\ ~stop_event
    /\ stop_event' = TRUE
    /\ started_at_stop' = Cardinality({r \in Rids : tpc[r] # "queued"})
    /\ UNCHANGED <<dbVars, campVars, uiVars, limVars, apiVars,
                   snapshot, tpc, attempt, last_error, exc,
                   result, sends, accepted, acquired, seen_stop, backoff>>

\* The task returns (rid, text, n).
Return(r, text, n) ==
    /\ tpc' = [tpc EXCEPT ![r] = "returned"]
    /\ result' = [result EXCEPT ![r] = [text |-> text, attempts |-> n]]

\* Lines 48-59: a pool thread takes the task; the address is validated.
TaskBegin(r) ==
    /\ tpc[r] = "queued"
    /\ Cardinality(Running) < Concurrency
    /\ LET attempts == snapshot[r].attempts
       IN IF ValidateEmail(snapshot[r].email)
          THEN /\ tpc' = [tpc EXCEPT ![r] = "check"]
               /\ attempt' = [attempt EXCEPT ![r] = 1]
               /\ UNCHANGED <<dbVars, result, exc>>
          ELSE \E stored \in WriteOutcomes :
                  /\ faults' = Counted(stored)
                  /\ IF stored
                     THEN /\ recipients' = RowsAfterUpdate(recipients, r, "invalid",
                                                          InvalidReason, attempts)
                          /\ campaign_stats' =
                                StatsAfterUpdate(campaign_stats, recipients, r, "invalid",
                                                 InvalidReason, attempts)
                          /\ Return(r, StatusText("invalid", InvalidReason), attempts)
                          /\ UNCHANGED <<attempt, exc>>
                     ELSE \* the write raises inside the except clause
                          /\ tpc' = [tpc EXCEPT ![r] = "raised"]
                          /\ exc' = [exc EXCEPT ![r] = StoreError]
                          /\ UNCHANGED <<recipients, campaign_stats, attempt, result>>
    /\ UNCHANGED <<campVars, uiVars, limVars, apiVars,
                   snapshot, stop_event, last_error, sends, accepted,
                   acquired, seen_stop, started_at_stop, backoff>>

\* The stop flag is tested and the task carries on whatever it finds.
AfterStopCheckIgnored(is_set) == "attempt"

\* Where the task goes after testing the stop flag at the top of an iteration.
AfterStopCheck(is_set) == IF is_set THEN "returned" ELSE "attempt"

\* The iteration that finds the stop flag set is counted as an attempt.
StoppedAttemptsCurrent(n) == n

\* Line 62: the attempts a task stopped at the top of iteration n reports.
StoppedAttempts(n) == n - 1

\* Lines 60-62 and 85: the top of an iteration, or the end of the loop.
TaskCheck(r) ==
    /\ tpc[r] = "check"
    /\ IF attempt[r] > RetryAttempts + 1
       THEN /\ Return(r, StatusText("failed", last_error[r]), RetryAttempts)
            /\ UNCHANGED seen_stop
       ELSE /\ seen_stop' = [seen_stop EXCEPT ![r] = stop_event]
            /\ tpc' = [tpc EXCEPT ![r] = AfterStopCheck(stop_event)]
            /\ result' = [result EXCEPT ![r] =
                            IF AfterStopCheck(stop_event) = "returned"
                            THEN [text |-> StatusText("stopped", <<>>),
                                  attempts |-> StoppedAttempts(attempt[r])]
                            ELSE @]
    /\ UNCHANGED <<dbVars, campVars, uiVars, limVars, apiVars,
                   snapshot, stop_event, attempt, last_error,
                   exc, sends, accepted, acquired, started_at_stop, backoff>>

\* Lines 63-79: the rate limiter, the send operation, the 'sent' write.
TaskAttempt(r) ==
    /\ tpc[r] = "attempt"
    /\ acquired' = [acquired EXCEPT ![r] = @ + 1]
    /\ sends' = [sends EXCEPT ![r] = @ + 1]
    /\ \/ \* the transport accepts the message and the write goes through
          /\ accepted' = [accepted EXCEPT ![r] = @ + 1]
          /\ recipients' = RowsAfterUpdate(recipients, r, "sent", None, attempt[r])
          /\ campaign_stats' =
                StatsAfterUpdate(campaign_stats, recipients, r, "sent", None, attempt[r])
          /\ Return(r, StatusText("sent", <<>>), attempt[r])
          /\ UNCHANGED <<faults, exc>>
       \/ \* the transport accepts the message and the write raises
          /\ faults < MaxFaults
          /\ faults' = faults + 1
          /\ accepted' = [accepted EXCEPT ![r] = @ + 1]
          /\ tpc' = [tpc EXCEPT ![r] = "except"]
          /\ exc' = [exc EXCEPT ![r] = StoreError]
          /\ UNCHANGED <<recipients, campaign_stats, result>>
       \/ \* the transport raises
          /\ tpc' = [tpc EXCEPT ![r] = "except"]
          /\ exc' = [exc EXCEPT ![r] = TransportError(attempt[r])]
          /\ UNCHANGED <<dbVars, accepted, result>>
    /\ UNCHANGED <<campVars, uiVars, limVars, apiVars,
                   snapshot, stop_event, attempt, last_error,
                   seen_stop, started_at_stop, backoff>>

\* Lines 80-83: the except clause: the 'failed' write, the back-off sleep.
TaskExcept(r) ==
    /\ tpc[r] = "except"
    /\ last_error' = [last_error EXCEPT ![r] = exc[r]]
    /\ \E stored \in WriteOutcomes :
          /\ faults' = Counted(stored)
          /\ IF stored
             THEN /\ recipients' = RowsAfterUpdate(recipients, r, "failed", exc[r],
                                                  attempt[r])
                  /\ campaign_stats' =
                        StatsAfterUpdate(campaign_stats, recipients, r, "failed", exc[r],
                                         attempt[r])
                  /\ tpc' = [tpc EXCEPT ![r] = "check"]
                  /\ backoff' = [backoff EXCEPT ![r] = SleepOf(attempt[r])]
                  /\ attempt' = [attempt EXCEPT ![r] = @ + 1]
                  /\ UNCHANGED exc
             ELSE \* the write raises inside the except clause
                  /\ tpc' = [tpc EXCEPT ![r] = "raised"]
                  /\ exc' = [exc EXCEPT ![r] = StoreError]
                  /\ UNCHANGED <<recipients, campaign_stats, attempt, backoff>>
    /\ UNCHANGED <<campVars, uiVars, limVars, apiVars,
                   snapshot, stop_event, result, sends, accepted,
                   acquired, seen_stop, started_at_stop>>

\* Lines 43 and 83: time passes while a thread is in a time.sleep call, that of
\* the back-off or that of the rate limiter.
Elapse ==
    /\ \/ \E r \in Rids : tpc[r] = "check" /\ clock < backoff[r].until
       \/ \E w \in Workers : lpc[w] = "sleep" /\ clock < wake[w]
    /\ clock' = clock + 1
    /\ UNCHANGED <<last_sent, lock, lpc, wake, seen_sent, grants, starts,
                   dbVars, campVars, taskVars, uiVars, apiVars>>

\* Lines 83 and 60-62: time.sleep returns no sooner than asked, and the loop goes on.
TimedCheck(r) ==
    /\ clock >= backoff[r].until
    /\ TaskCheck(r)

\* ------------------------------------ main.py, MainWindow.on_recipient_status

UiInit ==
    /\ consumed = [r \in Rids |-> FALSE]
    /\ ui = [sent_count |-> 0, failed_count |-> 0, responded_count |-> 0,
             total_recipients |-> Len(recipients)]
    /\ threads = <<>>
    /\ sender_thread = 0
    /\ pending = 0
    /\ events = <<>>
    /\ refusals = 0

\* Lines 404-413: the counter the status text is counted under.
Classify(st) ==
    IF StartsWith(st, "sent") THEN "sent_count"
    ELSE IF StartsWith(st, "failed") THEN "failed_count"
    ELSE IF StartsWith(st, "invalid") THEN "failed_count"
    ELSE IF StartsWith(st, "responded") THEN "responded_count"
    ELSE "none"

\* A text that is not a failure is stored as responded.
DbStatusResponded(st) ==
    IF StartsWith(st, "failed") \/ StartsWith(st, "invalid") THEN "failed"
    ELSE "responded"

\* Lines 418-423: the status the text is stored as.
DbStatus(st) ==
    IF StartsWith(st, "sent") THEN "sent"
    ELSE IF StartsWith(st, "responded") THEN "responded"
    ELSE "failed"

DbError(st) ==
    IF StartsWith(st, "sent") \/ StartsWith(st, "responded") THEN None ELSE st

on_recipient_status(recipient_id, status_text) ==
    /\ ui' = IF Classify(status_text) = "none" THEN ui
             ELSE [ui EXCEPT ![Classify(status_text)] = @ + 1]
    /\ \E stored \in WriteOutcomes :
          /\ faults' = Counted(stored)
          /\ IF stored
             THEN /\ recipients' = RowsAfterUpdate(recipients, recipient_id,
                                                  DbStatus(status_text),
                                                  DbError(status_text), NoAttempts)
                  /\ campaign_stats' =
                        StatsAfterUpdate(campaign_stats, recipients, recipient_id,
                                         DbStatus(status_text), DbError(status_text), NoAttempts)
             ELSE \* except Exception: pass
                  UNCHANGED <<recipients, campaign_stats>>

\* The status event of a settled task: what it returned, or, for a task that
\* raised, a failed outcome carrying the exception's description.
Outcome(r) ==
    IF tpc[r] = "raised" THEN StatusText("failed", exc[r]) ELSE result[r].text

\* The drain of the completed tasks: each outcome is handed once to the consumer.
Drain(r) ==
    /\ Settled(r)
    /\ ~consumed[r]
    /\ consumed' = [consumed EXCEPT ![r] = TRUE]
    /\ on_recipient_status(r, Outcome(r))
    /\ UNCHANGED <<campVars, taskVars, limVars, apiVars, winVars>>

\* ----------------------------------- main.py, MainWindow.start_sender_thread

\* QThread.isRunning(): from start() until quit() has ended the event loop,
\* whether or not start_campaign has returned.
IsRunning(t) == threads[t].state \in {"running", "done", "crashed"}

\* Lines 369-371: the guard for an existing thread.
Busy == sender_thread # 0 /\ IsRunning(sender_thread)

\* Lines 367-382: a start request. With a thread running it is refused; else
\* the total and the counters are reset and _update_realtime_ui is called,
\* whose QApplication.processEvents() (line 455) dispatches the events that
\* are waiting before the call goes on.
StartRequest ==
    /\ Len(threads) + pending + refusals < MaxRuns
    /\ IF Busy
       THEN /\ refusals' = refusals + 1
            /\ UNCHANGED <<ui, pending>>
       ELSE /\ ui' = [sent_count |-> 0, failed_count |-> 0, responded_count |-> 0,
                      total_recipients |-> Len(recipients)]
            /\ pending' = pending + 1
            /\ UNCHANGED refusals
    /\ UNCHANGED <<consumed, threads, sender_thread, events,
                   dbVars, campVars, taskVars, limVars, apiVars>>

\* Lines 385-396: back from processEvents, the call creates the thread and the
\* worker, connects the signals and starts the thread.
StartThread ==
    /\ pending > 0
    /\ pending' = pending - 1
    /\ threads' = Append(threads, [state |-> "running", emitted |-> 0])
    /\ sender_thread' = Len(threads) + 1
    /\ UNCHANGED <<consumed, ui, events, refusals,
                   dbVars, campVars, taskVars, limVars, apiVars>>

\* The job of a running thread reports a recipient as sent, and the window
\* handles the status signal.
JobStatus(t) ==
    /\ threads[t].state = "running"
    /\ threads[t].emitted < Len(recipients)
    /\ threads' = [threads EXCEPT ![t].emitted = @ + 1]
    /\ on_recipient_status(threads[t].emitted + 1, StatusText("sent", <<>>))
    /\ UNCHANGED <<consumed, sender_thread, pending, events, refusals,
                   campVars, taskVars, limVars, apiVars>>

\* The job of a running thread ends: start_campaign emits finished (lines 102
\* and 140 of sender.py), or an exception leaves it and no signal is emitted.
JobEnd(t) ==
    /\ threads[t].state = "running"
    /\ \E emitted \in BOOLEAN :
          IF emitted
          THEN /\ threads' = [threads EXCEPT ![t].state = "done"]
               /\ events' = Append(events, t)
          ELSE /\ threads' = [threads EXCEPT ![t].state = "crashed"]
               /\ UNCHANGED events
    /\ UNCHANGED <<consumed, ui, sender_thread, pending, refusals,
                   dbVars, campVars, taskVars, limVars, apiVars>>

\* Lines 457-467: on_sending_finished. quit() and wait() return once the
\* thread is back in its event loop; the thread and the worker are dropped.
on_sending_finished ==
    /\ events # <<>>
    /\ events' = Tail(events)
    /\ IF sender_thread # 0
       THEN /\ threads[sender_thread].state # "running"
            /\ threads' = [threads EXCEPT ![sender_thread].state = "quit"]
            /\ sender_thread' = 0
       ELSE UNCHANGED <<threads, sender_thread>>
    /\ UNCHANGED <<consumed, ui, pending, refusals,
                   dbVars, campVars, taskVars, limVars, apiVars>>

Next ==
    \/ Stop
    \/ \E r \in Rids : TaskBegin(r)
    \/ \E r \in Rids : TaskCheck(r)
    \/ \E r \in Rids : TaskAttempt(r)
    \/ \E r \in Rids : TaskExcept(r)
    \/ \E r \in Rids : Drain(r)

CampaignNext ==
    \/ StartCampaign
    \/ CampaignValidate
    \/ CampaignSend
    \/ CampaignFinish

\* A store with the campaign's recipients added and none dispatched yet.
DbInit ==
    /\ recipients \in [1..NumRecipients -> {NewRow(a) : a \in Addresses}]
    /\ campaign_stats = NewStats(recipients)
    /\ faults = 0

\* The row that k runs of start_campaign leave when the transport refused every
\* message: attempts counted once per run, the last status and error stored.
PriorRow(addr, k) ==
    IF k = 0 THEN NewRow(addr)
    ELSE IF RegexMatch(Strip(addr))
         THEN [NewRow(addr) EXCEPT !.status = "failed", !.attempts = k,
                                   !.last_error = TransportError(1)]
         ELSE [NewRow(addr) EXCEPT !.status = "invalid", !.attempts = k,
                                   !.last_error = <<"Invalid email format">>]

\* A store whose campaign is dispatched for the first time, or again after
\* MaxPriorRuns runs of start_campaign.
DbInitAgain ==
    /\ \E k \in {0, MaxPriorRuns} :
          recipients \in [1..NumRecipients -> {PriorRow(a, k) : a \in TaskAddresses}]
    /\ campaign_stats = RecomputeStats(NewStats(recipients), recipients, CampaignId)
    /\ faults = 0

\* A store whose campaign has valid addresses only.
DbInitValid ==
    /\ recipients = [r \in 1..NumRecipients |-> NewRow(GoodAddr)]
    /\ campaign_stats = NewStats(recipients)
    /\ faults = 0

\* A store holding recipients of several campaigns, none dispatched yet.
DbInitShared ==
    /\ recipients \in [1..NumRecipients -> {NewRowOf(c, GoodAddr) : c \in Campaigns}]
    /\ campaign_stats = NewStats(recipients)
    /\ faults = 0

Idle == CampaignInit /\ TaskInit /\ UiInit /\ RateInit /\ ApiInit

InitCampaign == DbInit /\ Idle

Init == DbInitAgain /\ Idle

InitRate == DbInitValid /\ Idle

InitDb == DbInitShared /\ Idle

RateNext ==
    \/ Tick
    \/ \E w \in Workers : RateLimitCall(w)
    \/ \E w \in Workers : LockAcquire(w)
    \/ \E w \in Workers : ReadClock(w)
    \/ \E w \in Workers : Wake(w)
    \/ \E w \in Workers : Stamp(w)
    \/ \E w \in Workers : SendStart(w)

\* The callers' arguments: an error text with failed and invalid only, attempts
\* omitted or the first attempt's number; the id of no row among the ids.
DbNext ==
    \E rid \in 1..(Len(recipients) + 1), status \in Statuses,
       attempts \in {NoAttempts, 1} :
        update_recipient_status(rid, status,
                                IF status \in {"failed", "invalid"}
                                THEN TransportError(1) ELSE None,
                                attempts)

\* The store of the end-to-end example: a good address, a malformed one and
\* one whose server is down, added in that order and not dispatched yet.
DbInitExample ==
    /\ recipients = <<NewRow(GoodAddr), NewRow(BadAddr), NewRow(DownAddr)>>
    /\ campaign_stats = NewStats(recipients)
    /\ faults = 0

InitExample == DbInitExample /\ Idle

\* The tasks with the clock running: a back-off sleep takes its time.
InitBackoff == DbInitValid /\ Idle

BackoffNext ==
    \/ Elapse
    \/ Stop
    \/ \E r \in Rids : TaskBegin(r)
    \/ \E r \in Rids : TimedCheck(r)
    \/ \E r \in Rids : TaskAttempt(r)
    \/ \E r \in Rids : TaskExcept(r)

SpecBackoff == InitBackoff /\ [][BackoffNext]_vars

\* The store with several threads inside update_recipient_status.
InitStore == DbInitValid /\ Idle

\* The callers' arguments: the id of a row or of none, sent or failed.
StoreCall(t) ==
    \E rid \in 1..(Len(recipients) + 1), status \in {"sent", "failed"} :
        DbCall(t, rid, status, IF status = "failed" THEN TransportError(1) ELSE None,
               NoAttempts)

StoreNext ==
    \/ \E t \in Threads : StoreCall(t)
    \/ \E t \in Threads : DbEnter(t)
    \/ \E t \in Threads : DbSelect(t)
    \/ \E t \in Threads : DbUpdate(t)

\* A thread that can run does run: the scheduler starves none.
StoreFairness ==
    \A t \in Threads :
        /\ WF_vars(DbEnter(t))
        /\ WF_vars(DbSelect(t))
        /\ WF_vars(DbUpdate(t))

SpecStore == InitStore /\ [][StoreNext]_vars /\ StoreFairness

\* The pool's threads between the rate limiter and the store: a thread is in
\* one call at a time.
InitLocks == DbInitValid /\ Idle

\* The recipients whose tasks the worker runs, those not yet stored as sent,
\* and the sends the worker was granted.
TasksOf(w) == {r \in Rids : r % Concurrency = w % Concurrency}
Waiting(w) == {r \in TasksOf(w) : recipients[r].status = "pending"}
Granted(w) == Cardinality({i \in 1..Len(grants) : grants[i].by = w})

\* Line 63: the worker calls the rate limiter for its next recipient.
WorkerLimit(w) ==
    /\ dpc[w] = "idle"
    /\ Waiting(w) # {}
    /\ Granted(w) = Cardinality(TasksOf(w) \ Waiting(w))
    /\ RateLimitCall(w)

\* Line 78: the message sent, the worker stores sent for the recipient.
WorkerWrite(w) ==
    /\ lpc[w] = "idle"
    /\ Granted(w) > Cardinality(TasksOf(w) \ Waiting(w))
    /\ \E r \in Waiting(w) : DbCall(w, r, "sent", None, 1)

LocksNext ==
    \/ Elapse
    \/ \E w \in Workers : WorkerLimit(w)
    \/ \E w \in Workers : LockAcquire(w)
    \/ \E w \in Workers : ReadClock(w)
    \/ \E w \in Workers : Wake(w)
    \/ \E w \in Workers : Stamp(w)
    \/ \E w \in Workers : SendStart(w)
    \/ \E w \in Workers : WorkerWrite(w)
    \/ \E w \in Workers : DbEnter(w)
    \/ \E w \in Workers : DbSelect(w)
    \/ \E w \in Workers : DbUpdate(w)

\* Time passes, and a thread that can run does run.
LocksFairness ==
    /\ WF_vars(Elapse)
    /\ StoreFairness
    /\ \A w \in Workers :
          /\ WF_vars(LockAcquire(w))
          /\ WF_vars(ReadClock(w))
          /\ WF_vars(Wake(w))
          /\ WF_vars(Stamp(w))
          /\ WF_vars(SendStart(w))

SpecLocks == InitLocks /\ [][LocksNext]_vars /\ LocksFairness

\* The window with its start requests and the threads it starts.
InitWindow == DbInitValid /\ Idle

WindowNext ==
    \/ StartRequest
    \/ StartThread
    \/ \E t \in 1..Len(threads) : JobStatus(t)
    \/ \E t \in 1..Len(threads) : JobEnd(t)
    \/ on_sending_finished

SpecWindow == InitWindow /\ [][WindowNext]_vars

SpecCampaign == InitCampaign /\ [][CampaignNext]_vars

SpecExample == InitExample /\ [][CampaignNext]_vars

Spec == Init /\ [][Next]_vars

SpecRate == InitRate /\ [][RateNext]_vars

SpecDb == InitDb /\ [][DbNext]_vars

\* ------------------------------------------------------------------ claims

\* C1: a run over N recipients with no cancellation emits exactly N per-recipient
\* events and the counts of its final summary add up to N, whatever the transport
\* does, a failure to set up the connection included.
C1_EveryRecipientCounted ==
    cpc = "done" =>
        /\ Len(progress) = NumRecipients
        /\ Len(finished) = 1
        /\ finished[1].sent + finished[1].failed + finished[1].invalid = NumRecipients

\* The task of r ran to its end with every send refused by the transport and no
\* stop requested, and its status event is not handled yet.
AlwaysRefused(r) ==
    /\ Settled(r)
    /\ ~consumed[r]
    /\ ValidateEmail(snapshot[r].email)
    /\ accepted[r] = 0
    /\ ~stop_event

\* C2: a valid recipient whose send fails on every attempt, with no cancellation,
\* has the send operation invoked exactly RetryAttempts + 1 times and ends failed,
\* the error of the last attempt in the returned outcome and in the stored row.
C2_FailedAfterAllAttempts ==
    \A r \in Rids :
        AlwaysRefused(r) =>
            /\ sends[r] = RetryAttempts + 1
            /\ tpc[r] = "returned"
            /\ result[r].text = StatusText("failed", TransportError(RetryAttempts + 1))
            /\ recipients[r].status = "failed"
            /\ recipients[r].last_error = TransportError(RetryAttempts + 1)

\* C2 where the store refused no write.
C2_FailedAfterAllAttemptsStored ==
    faults = 0 => C2_FailedAfterAllAttempts

\* C3: a recipient whose address fails validation ends invalid with a recorded
\* attempts value of 0, no send operation and no rate limiter acquisition,
\* whatever attempts value its row carried before the run.
C3_InvalidRecordsNoAttempt ==
    \A r \in Rids :
        (tpc[r] = "returned" /\ ~ValidateEmail(snapshot[r].email) /\ ~consumed[r]) =>
            /\ StartsWith(result[r].text, "invalid")
            /\ recipients[r].status = "invalid"
            /\ recipients[r].attempts = 0
            /\ result[r].attempts = 0
            /\ sends[r] = 0
            /\ acquired[r] = 0

\* Events at the given times keep to the rate: a window of length T holds at
\* most rate*T + 1 of them.
WithinRate(times) ==
    \A i, j \in 1..Len(times) :
        i < j => (j - i) * TicksPerSecond <= RatePerSec * (times[j] - times[i])

GrantTimes == [i \in 1..Len(grants) |-> grants[i].at]

\* Consecutive grants are at least 1/rate apart.
GrantsSpaced ==
    \A i \in 1..(Len(grants) - 1) :
        RatePerSec * (grants[i + 1].at - grants[i].at) >= TicksPerSecond

\* C4 as stated: with any number of workers calling the rate limiter, consecutive
\* grants are at least 1/rate apart, and any window of length T holds at most
\* rate*T + 1 starts of send operations.
C4_SendStartsWithinRate ==
    /\ GrantsSpaced
    /\ WithinRate(starts)

\* C4, amended: consecutive grants are at least 1/rate apart; any window of
\* length T holds at most rate*T + 1 grants; at most rate*T + 1 send operations
\* start within T of the first grant. A send operation starts some time after
\* its grant, outside the lock, so that send starts themselves may bunch up.
C4_GrantsWithinRate ==
    /\ GrantsSpaced
    /\ WithinRate(GrantTimes)
    /\ \A j \in 1..Len(starts) :
          (j - 1) * TicksPerSecond <= RatePerSec * (starts[j] - grants[1].at)

\* Three grants, two of them to different workers one interval apart, and two
\* send operations started at the same time.
C4_Witness ==
    /\ Len(grants) >= 3
    /\ \E i \in 1..(Len(grants) - 1) :
          /\ grants[i].by # grants[i + 1].by
          /\ grants[i + 1].at - grants[i].at = Interval
    /\ Len(starts) >= 2
    /\ starts[2] = starts[1]

\* The stored row of r holds the outcome st of attempt n.
Recorded(rows, r, st, n) == rows[r].status = st /\ rows[r].attempts = n

\* Status events handled so far, and the end of a run: every task's is.
Events == Cardinality({r \in Rids : consumed[r]})
RunOver == \A r \in Rids : consumed[r]

C6_RepeatedUpdateCountsOnce ==
    [][(/\ calls' = calls + 1
        /\ last_call'.again
        /\ last_call'.status \in TerminalStatuses) =>
            campaign_stats' = campaign_stats]_vars

\* A recipient was set to sent twice in a row and is counted as sent.
C6_Witness ==
    /\ calls >= 2
    /\ last_call.again
    /\ last_call.rid \in Rids
    /\ last_call.status = "sent"
    /\ campaign_stats[recipients[last_call.rid].campaign_id].sent_count >= 1

\* Recipients of the snapshot that have not reached a terminal status.
Pending(rows) == CountLike(rows, CampaignId, "pending")

\* C7: whenever a run is under way or over, the run's sent, failed and invalid
\* counters and the number of pending recipients add up to the snapshot size.
C7_CountersAccountForSnapshot ==
    runs >= 1 =>
        counts.sent + counts.failed + counts.invalid + Pending(recipients)
            = NumRecipients

\* C8: once the send operation has succeeded for a recipient it is never invoked
\* again for that recipient in the run, also when the status write after the
\* successful send fails.
C8_NoSendAfterSuccess ==
    [][\A r \in Rids : accepted[r] > 0 => sends'[r] = sends[r]]_vars

\* C9: during a dispatch run a stored status changes only from pending to sent,
\* failed or invalid.
C9_OnlyFromPending ==
    [][\A r \in Rids :
          recipients'[r].status # recipients[r].status =>
              /\ recipients[r].status = "pending"
              /\ recipients'[r].status \in {"sent", "failed", "invalid"}]_vars

\* C10: no status update ever stores a smaller attempts value than the stored one.
C10_AttemptsNeverDecrease ==
    [][\A r \in Rids : recipients'[r].attempts >= recipients[r].attempts]_vars

\* C11: a started run ends with exactly one finished signal, never without one,
\* and with no cancellation the signal is emitted only after every recipient of
\* the snapshot was processed.
C11_RunEndsWithSummary ==
    /\ cpc # "crashed"
    /\ cpc = "done" => Len(finished) = 1
    /\ Len(finished) >= 1 => idx > Len(recipients)

\* C11, its first part alone: no run ends without its finished signal.
C11_NoRunWithoutSummary == cpc # "crashed"

\* C12: a status write that the store refuses is swallowed: no task raises for
\* it, and no task handles it as a failure of the send.
C12_RefusedWriteIsSwallowed ==
    [][faults' > faults =>
          \A r \in Rids :
              /\ tpc'[r] = "raised" => tpc[r] = "raised"
              /\ tpc'[r] = "except" => tpc[r] = "except"]_vars

\* An exception is raised in this step of start_campaign: by sendmail, or by a
\* status write.
Raises ==
    \/ runs' = runs /\ sendmails' # sendmails /\ counts'.sent = counts.sent
    \/ faults' > faults

\* C13: an exception raised while a recipient is processed makes that recipient
\* a failed one, and the run goes on with the next recipient.
C13_ErrorsBecomeFailed ==
    [][Raises => /\ counts'.failed = counts.failed + 1
                 /\ Len(progress') = Len(progress) + 1
                 /\ idx' = idx + 1
                 /\ cpc' = "loop"]_vars

\* The first run over the example's campaign is over; the transport accepted the
\* message to the good address and refused the one to the down address, and
\* the store refused no write.
ExampleRan ==
    /\ runs = 1
    /\ cpc = "done"
    /\ faults = 0
    /\ recipients[1].status = "sent"
    /\ recipients[3].status = "failed"

\* C14: the run over [good, malformed, down] ends with the final counts sent = 1,
\* invalid = 1, failed = 1, and the down recipient has attempts = 2 (two send
\* attempts under a retry ceiling of 1).
C14_ExampleCounts ==
    ExampleRan =>
        /\ finished = <<[sent |-> 1, failed |-> 1, invalid |-> 1]>>
        /\ recipients[3].attempts = 2

\* C14, its final counts alone.
C14_ExampleFinalCounts ==
    ExampleRan => finished = <<[sent |-> 1, failed |-> 1, invalid |-> 1]>>

\* The four status texts: sent, failed: <reason>, invalid: <reason>, stopped.
WellFormed(text) ==
    \/ text = <<"sent">>
    \/ text = <<"stopped">>
    \/ Len(text) = 2 /\ text[1] \in {"failed", "invalid"} /\ text[2] # <<>>

\* 1 when the text is of the kind, else 0.
Of(kind, text) == IF StartsWith(text, kind) THEN 1 ELSE 0

\* C15: every status text a task returns is one of the four, and the consumer
\* counts each kind under its own category: sent as sent, failed as failed,
\* invalid as neither sent nor failed, stopped as none.
C15_EachKindItsOwnCount ==
    /\ [](\A r \in Rids : tpc[r] = "returned" => WellFormed(result[r].text))
    /\ [][\A r \in Rids :
            (consumed'[r] /\ ~consumed[r]) =>
                /\ ui'.sent_count = ui.sent_count + Of("sent", Outcome(r))
                /\ ui'.failed_count = ui.failed_count + Of("failed", Outcome(r))
                /\ ui'.responded_count = ui.responded_count]_vars

\* C15, the texts alone: every status text a task returns is one of the four.
C15_FourTexts ==
    \A r \in Rids : tpc[r] = "returned" => WellFormed(result[r].text)

\* The workers between reading _last_sent and writing it.
Deciding == {w \in Workers : lpc[w] \in {"sleep", "stamp"}}

\* C16: the rate limiter's elapsed-time check and its update of _last_sent are
\* atomic across workers: at most one worker at a time is between reading
\* _last_sent and writing it, only the holder of the lock is, and no two grants
\* were decided on the same _last_sent value.
C16_CheckAndStampAtomic ==
    /\ Cardinality(Deciding) <= 1
    /\ \A w \in Deciding : lock = w
    /\ \A i, j \in 1..Len(grants) : i # j => grants[i].since # grants[j].since

\* Two workers called the limiter together after a grant: one sleeps between
\* its read and its write, the other waits for the lock.
C16_Witness ==
    /\ Len(grants) >= 1
    /\ \E w, v \in Workers : lpc[w] = "sleep" /\ lpc[v] = "lock"

\* C17: when the attempt loop is exhausted, the attempts count of the returned
\* failed outcome is RetryAttempts + 1, the number of send attempts made and the
\* attempts value last stored for the recipient.
C17_ExhaustedReportsAllAttempts ==
    \A r \in Rids :
        (tpc[r] = "returned" /\ StartsWith(result[r].text, "failed")) =>
            /\ result[r].attempts = RetryAttempts + 1
            /\ result[r].attempts = sends[r]
            /\ result[r].attempts = recipients[r].attempts

\* C17 without the returned count: the send attempts made and the attempts value
\* last stored are RetryAttempts + 1.
C17_ExhaustedMadeAllAttempts ==
    \A r \in Rids :
        (tpc[r] = "returned" /\ StartsWith(result[r].text, "failed")) =>
            /\ sends[r] = RetryAttempts + 1
            /\ recipients[r].attempts = RetryAttempts + 1

\* The outcome of a task that found the stop flag set before its first attempt.
StoppedAtOnce == [text |-> StatusText("stopped", <<>>), attempts |-> 0]

\* C18: a task that begins with the stop flag set returns stopped with zero
\* attempts before validating the address: it writes no status (invalid
\* included), acquires no rate limiter grant and sends nothing.
C18_StoppedBeforeValidation ==
    /\ [][\A r \in Rids :
            (stop_event /\ tpc[r] = "queued" /\ tpc'[r] # "queued") =>
                /\ recipients' = recipients
                /\ faults' = faults
                /\ tpc'[r] \in {"check", "returned"}
                /\ tpc'[r] = "returned" => result'[r] = StoppedAtOnce]_vars
    /\ [][\A r \in Rids :
            (stop_event /\ tpc[r] = "check" /\ attempt[r] = 1 /\ tpc'[r] # "check") =>
                /\ tpc'[r] = "returned"
                /\ result'[r] = StoppedAtOnce
                /\ recipients' = recipients
                /\ sends'[r] = 0
                /\ acquired'[r] = 0]_vars

\* C18 for valid addresses: a task over a valid address that begins with the
\* stop flag set returns stopped with zero attempts, nothing written or sent.
C18_ValidStoppedAtOnce ==
    /\ [][\A r \in Rids :
            (stop_event /\ tpc[r] = "queued" /\ tpc'[r] # "queued"
                /\ ValidateEmail(snapshot[r].email)) =>
                /\ recipients' = recipients
                /\ tpc'[r] = "check"]_vars
    /\ [][\A r \in Rids :
            (stop_event /\ tpc[r] = "check" /\ attempt[r] = 1 /\ tpc'[r] # "check") =>
                /\ result'[r] = StoppedAtOnce
                /\ recipients' = recipients
                /\ sends'[r] = 0
                /\ acquired'[r] = 0]_vars

\* C19: a task that finds the stop flag set at the top of iteration k, k in
\* 1..RetryAttempts + 1, returns stopped reporting k - 1 attempts, the number of
\* send operations it performed, and finding the flag undoes nothing: what the
\* attempts before stored, and the sends they made, stay as they are.
C19_StoppedReportsAttemptsMade ==
    /\ [](\A r \in Rids :
            seen_stop[r] =>
                /\ attempt[r] \in 1..(RetryAttempts + 1)
                /\ tpc[r] = "returned"
                /\ result[r].text = StatusText("stopped", <<>>)
                /\ result[r].attempts = attempt[r] - 1
                /\ result[r].attempts = sends[r])
    /\ [][\A r \in Rids :
            (~seen_stop[r] /\ seen_stop'[r]) =>
                /\ recipients' = recipients
                /\ campaign_stats' = campaign_stats
                /\ sends' = sends
                /\ accepted' = accepted]_vars

\* A task found the stop flag set at the top of its last iteration, after
\* RetryAttempts failed attempts whose record stands.
C19_Witness ==
    \E r \in Rids :
        /\ seen_stop[r]
        /\ attempt[r] = RetryAttempts + 1
        /\ ~consumed[r]
        /\ Recorded(recipients, r, "failed", RetryAttempts)

\* The counters the window tracked agree with the ones the store recomputed.
CountersAgree ==
    /\ ui.sent_count = campaign_stats[CampaignId].sent_count
    /\ ui.failed_count = campaign_stats[CampaignId].failed_count
    /\ ui.responded_count = campaign_stats[CampaignId].responded_count

AllPendingAtStart == \A r \in Rids : snapshot[r].status = "pending"

\* C20: for a run that started from all-pending recipients, once every status
\* event has been processed, invalid and stopped events included, the window's
\* sent_count, failed_count and responded_count equal the campaign's
\* sent_count, failed_count and responded_count recomputed from the rows.
C20_CountersAgree == (AllPendingAtStart /\ RunOver) => CountersAgree

\* C20, for the runs in which the store refused no write: started from
\* all-pending recipients, with every status event processed, invalid and
\* stopped events included, the window's sent_count, failed_count and
\* responded_count equal the campaign's recomputed from the rows.
C20_CountersAgreeWithoutRefusal ==
    (AllPendingAtStart /\ RunOver /\ faults = 0) => CountersAgree

\* The same for runs in which no write was refused and stop() was never called.
C20_CountersAgreeUnstopped ==
    (AllPendingAtStart /\ RunOver /\ faults = 0 /\ ~stop_event) => CountersAgree

\* The rows of a campaign that carry a status.
RowsWith(rows, cid, st) ==
    {r \in DOMAIN rows : rows[r].campaign_id = cid /\ rows[r].status = st}

\* The stats row of a campaign says what the campaign's rows say.
StatsMatchRows(stats, rows, cid) ==
    /\ stats[cid].sent_count = Cardinality(RowsWith(rows, cid, "sent"))
    /\ stats[cid].failed_count = Cardinality(RowsWith(rows, cid, "failed"))
    /\ stats[cid].responded_count = Cardinality(RowsWith(rows, cid, "responded"))
    /\ stats[cid].total_recipients =
          Cardinality({r \in DOMAIN rows : rows[r].campaign_id = cid})

\* C21: after every completed update_recipient_status call on an existing
\* recipient, the sent_count, failed_count and responded_count of the
\* recipient's campaign equal the numbers of the campaign's rows whose status is
\* sent, failed and responded, and total_recipients the number of its rows.
C21_StatsMatchRows ==
    [][(calls' = calls + 1 /\ last_call'.rid \in Rids) =>
          StatsMatchRows(campaign_stats', recipients',
                         recipients[last_call'.rid].campaign_id)]_vars

\* A campaign of two recipients has one of them sent and the other failed, and
\* its stats row counts both.
C21_Witness ==
    /\ calls >= 2
    /\ last_call.rid \in Rids
    /\ \E c \in Campaigns :
          /\ Cardinality(RowsWith(recipients, c, "sent")) = 1
          /\ Cardinality(RowsWith(recipients, c, "failed")) = 1
          /\ campaign_stats[c].sent_count = 1
          /\ campaign_stats[c].failed_count = 1

\* The except clause of some task is left in this step: a failed attempt was handled.
Handled(r) == tpc[r] = "except" /\ tpc'[r] # "except"

\* The delay the retry policy asks for after the k-th failed attempt, in ticks.
LinearDelay(k) == RetryBackoff * TicksPerSecond * k

\* After failed attempt k the row says failed with the error and k attempts,
\* and the task sleeps from now for the linear delay.
PersistedThenDelayed(r) ==
    /\ Recorded(recipients', r, "failed", attempt[r])
    /\ recipients'[r].last_error = exc[r]
    /\ tpc'[r] = "check"
    /\ backoff'[r] = [from |-> clock, until |-> clock + LinearDelay(attempt[r])]

\* The task's next step is not taken before the delay has elapsed.
NoStepBeforeDelay(r) ==
    (tpc[r] = "check" /\ tpc'[r] # "check") =>
        clock >= backoff[r].from + LinearDelay(attempt[r] - 1)

\* C22: after the k-th failed attempt of a recipient, k in 1..RetryAttempts + 1,
\* the task stores failed with the error text and the attempt count k and then
\* sleeps exactly RetryBackoff * k seconds, a delay linear in k; its next step,
\* and so its next attempt, is not taken before the delay has elapsed.
C22_LinearBackoff ==
    /\ [](\A r \in Rids : tpc[r] = "except" => attempt[r] \in 1..(RetryAttempts + 1))
    /\ [][\A r \in Rids : Handled(r) => PersistedThenDelayed(r)]_vars
    /\ [][\A r \in Rids : NoStepBeforeDelay(r)]_vars

\* C22 for the failed attempts whose status write the store accepted.
C22_LinearBackoffWhenStored ==
    /\ [](\A r \in Rids : tpc[r] = "except" => attempt[r] \in 1..(RetryAttempts + 1))
    /\ [][\A r \in Rids : (Handled(r) /\ faults' = faults) => PersistedThenDelayed(r)]_vars
    /\ [][\A r \in Rids : NoStepBeforeDelay(r)]_vars

\* The threads inside the section of update_recipient_status.
InStore == {t \in Threads : dpc[t] \in {"select", "update"}}

\* C23: concurrent callers of update_recipient_status are serialized: at most
\* one thread at a time is inside the read-campaign, update-row, recompute-stats
\* section, and it holds the lock; and every caller returns in the end, the
\* lock being released on every path, the recipient-not-found return included.
C23_CallersSerialized ==
    /\ [](Cardinality(InStore) <= 1)
    /\ [](\A t \in InStore : db_lock = t)
    /\ [](InStore = {} => db_lock = 0)
    /\ \A t \in Threads : (dpc[t] # "idle") ~> (dpc[t] = "idle")

\* A call for a recipient that does not exist is inside the section, about to
\* return early, while another thread waits for the lock.
C23_Witness ==
    \E t, u \in Threads :
        /\ dpc[t] = "select"
        /\ dargs[t].rid \notin Rids
        /\ dpc[u] = "lock"

\* C24: the dispatch engine never sets a recipient's status to responded: no
\* task outcome is a responded text, no status write of a task or of the
\* handling of its outcome stores responded, and no counter of responded
\* recipients moves during a run.
C24_NeverResponded ==
    /\ [](\A r \in Rids : Settled(r) => ~StartsWith(Outcome(r), "responded"))
    /\ [][\A r \in Rids :
            recipients'[r].status = "responded" => recipients[r].status = "responded"]_vars
    /\ [][/\ ui'.responded_count = ui.responded_count
          /\ \A c \in Campaigns :
                campaign_stats'[c].responded_count = campaign_stats[c].responded_count]_vars

\* A run is over in which one outcome was sent and another was not, each
\* handled and stored by on_recipient_status.
C24_Witness ==
    /\ RunOver
    /\ faults = 0
    /\ \E r, q \in Rids :
          /\ StartsWith(Outcome(r), "sent")
          /\ recipients[r].status = "sent"
          /\ ~StartsWith(Outcome(q), "sent")
          /\ recipients[q].status = "failed"

\* A worker with a call under way, of the rate limiter or of the store.
Unfinished(w) == lpc[w] # "idle" \/ dpc[w] # "idle"

\* A lock changes hands only by being taken when free or by its holder leaving
\* the block that took it.
ReleasedByHolder(held, held_after, pc, pc_after) ==
    (held # 0 /\ held_after # held) => (held_after = 0 /\ pc_after[held] # pc[held])

\* C25: no worker ever holds the rate limiter's lock and the store's lock at the
\* same time, each lock is released by the worker that holds it, and every
\* worker with a call under way gets through it: no state is reached from which
\* the unfinished workers stay blocked for ever.
C25_NoDeadlock ==
    /\ [](\A w \in Workers : ~(lock = w /\ db_lock = w))
    /\ [][/\ ReleasedByHolder(lock, lock', lpc, lpc')
          /\ ReleasedByHolder(db_lock, db_lock', dpc, dpc')]_vars
    /\ \A w \in Workers : Unfinished(w) ~> ~Unfinished(w)

\* One worker sleeps in the rate limiter holding its lock while another is
\* inside the store holding the store's lock.
C25_Witness ==
    \E w, v \in Workers :
        /\ lpc[w] = "sleep"
        /\ lock = w
        /\ dpc[v] = "update"
        /\ db_lock = v

\* What a call on the recipient rid may change of the table and of the stats.
OnlyTargetChanged(rid, attempts) ==
    /\ DOMAIN recipients' = DOMAIN recipients
    /\ \A r \in Rids \ {rid} : recipients'[r] = recipients[r]
    /\ \A c \in Campaigns :
          (rid \notin Rids \/ c # recipients[rid].campaign_id) =>
              campaign_stats'[c] = campaign_stats[c]
    /\ rid \in Rids =>
          /\ recipients'[rid].campaign_id = recipients[rid].campaign_id
          /\ recipients'[rid].email = recipients[rid].email
          /\ recipients'[rid].attempts =
                IF attempts = NoAttempts THEN recipients[rid].attempts ELSE attempts
    /\ rid \notin Rids => recipients' = recipients

\* C26: update_recipient_status changes only the target recipient's status and
\* last_error, its attempts only when an attempts value is given, and the stats
\* row of that recipient's campaign; every other row and every other campaign's
\* stats stay as they are, and a call with the id of no recipient changes nothing.
C26_OnlyTargetChanged ==
    [][calls' = calls + 1 => OnlyTargetChanged(last_call'.rid, last_call'.attempts)]_vars

\* A call that gave no attempts value has set the status of a recipient whose
\* stored attempts an earlier call had set, in a store that holds a recipient
\* of another campaign too.
C26_Witness ==
    /\ calls >= 2
    /\ last_call.rid \in Rids
    /\ last_call.attempts = NoAttempts
    /\ ~last_call.again
    /\ recipients[last_call.rid].attempts = 1
    /\ recipients[last_call.rid].status = last_call.status
    /\ \E r \in Rids : recipients[r].campaign_id # recipients[last_call.rid].campaign_id

\* The threads whose sending job is under way.
ActiveJobs == {t \in 1..Len(threads) : threads[t].state = "running"}

\* A thread is created and started in this step.
RunStarts == Len(threads') > Len(threads)

\* C27: at most one sending job is active at any time: a request to start a run
\* while a sender thread is still running is refused and leaves the running
\* job, the counters and total_recipients unchanged, and a new run starts only
\* after the finished event of the run before it has been handled, every
\* earlier thread having been quit by on_sending_finished.
C27_OneJobAtATime ==
    /\ [](Cardinality(ActiveJobs) <= 1)
    /\ [][Busy => ~RunStarts]_vars
    /\ [][refusals' > refusals =>
            /\ Busy
            /\ threads' = threads
            /\ sender_thread' = sender_thread
            /\ ui' = ui]_vars
    /\ [][RunStarts => \A t \in 1..Len(threads) : threads[t].state = "quit"]_vars

\* The part of C27 about the request itself: a start request that arrives
\* while the current thread is running is refused and changes nothing.
C27_RequestWhileRunningRefused ==
    [][(Busy /\ (pending' > pending \/ refusals' > refusals)) =>
          /\ refusals' = refusals + 1
          /\ pending' = pending
          /\ threads' = threads
          /\ sender_thread' = sender_thread
          /\ ui' = ui]_vars

====
